---- MODULE Spec2Model ----
(***************************************************************************)
(* Model of the itinerary engine of tools/travel.py (plan_trip and its     *)
(* helpers).  One call of plan_trip is a state machine whose steps are the *)
(* blocks of the function between its external calls.                     *)
(*                                                                         *)
(* Conventions                                                             *)
(*  - a Python str is a tuple of one-character strings;                    *)
(*  - a distance is an integer number of 1e-4 km (a "tick"); positions lie *)
(*    on one meridian, so the great-circle distance of two points is the   *)
(*    absolute difference of their latitudes in ticks;                     *)
(*  - a dt.date is a record [y, m, d];                                     *)
(***************************************************************************)
EXTENDS Integers, Sequences, FiniteSets, TLC

VARIABLES
    args,       \* the arguments of the call
    today,      \* dt.date.today()
    world,      \* what the map services hold: Overpass elements, Nominatim hits
    pc,         \* position in plan_trip
    d0, d1,     \* the trip's first and last date
    days,       \* the dates not yet allocated
    center,     \* the anchor, None while unresolved
    raw,        \* the candidate list
    qi,         \* index of the next backfill query
    pois,       \* the de-duplicated, sorted candidates
    enriched,   \* the entries with distance/time
    pool,       \* the allocator's pool
    plan,       \* the itinerary built so far
    used_keys,  \* the keys already scheduled
    result,     \* the returned dict, None before the return
    error,      \* the service whose call raised, "none" if none
    calls,      \* number of requests sent to each service
    geo,        \* the geocoder's answer: "unasked", "empty" or "found"
    fallback,   \* whether the nearest-20 substitution was taken
    windows,    \* per emitted day, the lookahead the day was drawn from
    sample,     \* a direct call of _diversify: its arguments and what it returned
    tag_buckets, \* the buckets of the spatial query (the local "buckets" of plan_trip)
    agent       \* a call of run_agent: its position, its locals and what it returned

vars == <<args, today, world, pc, d0, d1, days, center, raw, qi, pois, enriched,
          pool, plan, used_keys, result, error, calls, geo, fallback, windows, sample,
          tag_buckets, agent>>

\* the state of plan_trip and of _diversify
trip_vars == <<args, today, world, pc, d0, d1, days, center, raw, qi, pois, enriched,
               pool, plan, used_keys, result, error, calls, geo, fallback, windows,
               sample, tag_buckets>>

\* None, for a value that is otherwise a record or a sequence of records
None == [none |-> TRUE]

\* None, for a value that is otherwise a number (all numbers of the model are >= 0)
NoNum == 0 - 1

\* run_agent not called
NoAgent == [pc |-> "idle"]

KM == 100 * 100     \* ticks per kilometre

-----------------------------------------------------------------------------
(* Numbers *)

Abs(x) == IF x < 0 THEN -x ELSE x

Max(a, b) == IF a >= b THEN a ELSE b

Min(a, b) == IF a <= b THEN a ELSE b

\* Python's round(): n/d to the nearest integer, an exact tie to the even one.
Round(n, d) ==
    LET q == n \div d
        r == n % d
    IN  IF 2 * r < d THEN q
        ELSE IF 2 * r > d THEN q + 1
        ELSE IF q % 2 = 0 THEN q ELSE q + 1

\* math.ceil(n/d)
Ceil(n, d) == IF n % d = 0 THEN n \div d ELSE (n \div d) + 1

\* round(x_km, 2) and round(x_km, 3) of a distance in ticks, in ticks
Round2(t) == 100 * Round(t, 100)

Round3(t) == 10 * Round(t, 10)

-----------------------------------------------------------------------------
(* Strings *)

UpperChars ==
    <<"A", "B", "C", "D", "E", "F", "G", "H", "I", "J", "K", "L", "M",
      "N", "O", "P", "Q", "R", "S", "T", "U", "V", "W", "X", "Y", "Z">>

LowerChars ==
    <<"a", "b", "c", "d", "e", "f", "g", "h", "i", "j", "k", "l", "m",
      "n", "o", "p", "q", "r", "s", "t", "u", "v", "w", "x", "y", "z">>

LowerChar(c) ==
    IF \E i \in 1..Len(UpperChars) : UpperChars[i] = c
    THEN LowerChars[CHOOSE i \in 1..Len(UpperChars) : UpperChars[i] = c]
    ELSE c

\* str.lower()
Lower(s) == [i \in 1..Len(s) |-> LowerChar(s[i])]

RECURSIVE LStrip(_)
LStrip(s) == IF s # <<>> /\ Head(s) = " " THEN LStrip(Tail(s)) ELSE s

RECURSIVE RStrip(_)
RStrip(s) ==
    IF s # <<>> /\ s[Len(s)] = " " THEN RStrip(SubSeq(s, 1, Len(s) - 1)) ELSE s

\* str.strip()
Strip(s) == RStrip(LStrip(s))

\* s.split(",")[0]
RECURSIVE SplitFirst(_)
SplitFirst(s) ==
    IF s = <<>> \/ Head(s) = "," THEN <<>> ELSE <<Head(s)>> \o SplitFirst(Tail(s))

UnnamedPlace == <<"U", "n", "n", "a", "m", "e", "d", " ", "p", "l", "a", "c", "e">>

_norm_name(s) == Strip(SplitFirst(Strip(Lower(s))))

-----------------------------------------------------------------------------
(* Dates *)

IsLeap(y) == (y % 4 = 0 /\ y % 100 # 0) \/ y % 400 = 0

DaysInMonth(y, m) ==
    IF m = 2 THEN (IF IsLeap(y) THEN 29 ELSE 28)
    ELSE IF m \in {4, 6, 9, 11} THEN 30 ELSE 31

ValidDate(y, m, d) ==
    /\ y \in 1..9999
    /\ m \in 1..12
    /\ d \in 1..DaysInMonth(y, m)

Date(y, m, d) == [y |-> y, m |-> m, d |-> d]

DateLt(a, b) ==
    \/ a.y < b.y
    \/ a.y = b.y /\ a.m < b.m
    \/ a.y = b.y /\ a.m = b.m /\ a.d < b.d

DateLe(a, b) == a = b \/ DateLt(a, b)

RECURSIVE DaysBeforeMonth(_, _)
DaysBeforeMonth(y, m) ==
    IF m <= 1 THEN 0 ELSE DaysBeforeMonth(y, m - 1) + DaysInMonth(y, m - 1)

\* days before January 1 of year y, counted from January 1 of year 1
DaysBeforeYear(y) ==
    LET p == y - 1 IN p * 365 + (p \div 4) - (p \div 100) + (p \div 400)

\* date.toordinal()
toordinal(a) == DaysBeforeYear(a.y) + DaysBeforeMonth(a.y, a.m) + a.d

\* date.fromordinal(n)
fromordinal(n) ==
    LET guess == (n \div 366) + 1
        y == CHOOSE yy \in guess..(guess + 8) :
                 DaysBeforeYear(yy) < n /\ n <= DaysBeforeYear(yy + 1)
        rest == n - DaysBeforeYear(y)
        m == CHOOSE mm \in 1..12 :
                 DaysBeforeMonth(y, mm) < rest
                 /\ rest <= DaysBeforeMonth(y, mm) + DaysInMonth(y, mm)
    IN  Date(y, m, rest - DaysBeforeMonth(y, m))

\* a + dt.timedelta(days=n)
AddDays(a, n) == fromordinal(toordinal(a) + n)

\* (b - a).days
DaysFromTo(a, b) == toordinal(b) - toordinal(a)

\* A date argument: None, the empty string, or text of three numeric fields
\* around two separators.  A field written with four digits is a number
\* >= 1000, one written with one or two digits a number <= 99.
DateText(f1, s1, f2, s2, f3) == [f1 |-> f1, s1 |-> s1, f2 |-> f2, s2 |-> s2, f3 |-> f3]

EmptyText == [empty |-> TRUE]

\* dt.datetime.strptime(s, fmt).date() for the formats %Y<sep>%m<sep>%d and
\* %d<sep>%m<sep>%Y; None stands for the ValueError.
Strptime(s, ymd, sep) ==
    LET yf == IF ymd THEN s.f1 ELSE s.f3
        df == IF ymd THEN s.f3 ELSE s.f1
    IN  IF /\ s.s1 = sep /\ s.s2 = sep
           /\ yf \in 1000..9999
           /\ s.f2 <= 99 /\ df <= 99
           /\ ValidDate(yf, s.f2, df)
        THEN Date(yf, s.f2, df)
        ELSE None

_parse_date(s) ==
    IF s = None \/ s = EmptyText THEN None
    ELSE IF Strptime(s, TRUE, "-") # None THEN Strptime(s, TRUE, "-")
    ELSE IF Strptime(s, FALSE, "-") # None THEN Strptime(s, FALSE, "-")
    ELSE IF Strptime(s, FALSE, "/") # None THEN Strptime(s, FALSE, "/")
    ELSE IF Strptime(s, TRUE, "/") # None THEN Strptime(s, TRUE, "/")
    ELSE None

_future_default_range(t) ==
    LET start == AddDays(t, 7) IN <<start, AddDays(start, 2)>>

\* _date_range in steps of a week
_date_range_weekly(a, b) ==
    LET n == DaysFromTo(a, b) + 1
    IN  [i \in 1..(IF n > 0 THEN n ELSE 0) |-> AddDays(a, 7 * (i - 1))]

_date_range(a, b) ==
    LET n == DaysFromTo(a, b) + 1
    IN  [i \in 1..(IF n > 0 THEN n ELSE 0) |-> AddDays(a, i - 1)]

\* date.isoformat()
isoformat(a) == DateText(a.y, "-", a.m, "-", a.d)

-----------------------------------------------------------------------------
(* Helpers of tools/travel.py *)

MIN_WALK_MIN == 3

WALK_SPEED_MIN_PER_KM == 12

\* Great-circle distance, in ticks, of two points given in ticks along one
\* meridian and one parallel.
_haversine_km(a_lat, a_lng, b_lat, b_lng) == Abs(a_lat - b_lat) + Abs(a_lng - b_lng)

\* distance_km in ticks, duration_min in minutes; NoNum is None
_suspicious_foot(distance_km, duration_min) ==
    IF distance_km = NoNum \/ distance_km = 0 \/ duration_min = NoNum \/ duration_min <= 0
    THEN FALSE
    ELSE 60 * distance_km > 8 * KM * duration_min

_fallback_walk_minutes(distance_km) == Round(distance_km * WALK_SPEED_MIN_PER_KM, KM)

\* The tag dictionary of an element: the value of each key, "" when absent.
Tags(amenity, shop, tourism, historic, man_made, leisure) ==
    [amenity |-> amenity, shop |-> shop, tourism |-> tourism,
     historic |-> historic, man_made |-> man_made, leisure |-> leisure]

NoTags == Tags("", "", "", "", "", "")

_bucket_for_tags(tags) ==
    IF tags.amenity \in {"restaurant", "fast_food", "food_court"} THEN "food"
    ELSE IF tags.amenity = "cafe" THEN "cafes"
    ELSE IF tags.shop = "bakery" THEN "food"
    ELSE IF tags.tourism = "museum" THEN "museums"
    ELSE IF tags.historic # "" THEN "history"
    ELSE IF tags.tourism \in {"attraction", "viewpoint"} THEN "landmarks"
    ELSE IF tags.man_made = "tower" THEN "landmarks"
    ELSE IF tags.leisure \in {"park", "garden"} THEN "parks"
    ELSE "landmarks"

order == <<"history", "landmarks", "museums", "food", "cafes", "parks">>

OrderSet == {order[i] : i \in 1..Len(order)}

\* seq[:n]
Take(seq, n) == SubSeq(seq, 1, Min(Len(seq), Max(n, 0)))

\* insertion of a keyed value after every value whose key is not larger
RECURSIVE InsertSorted(_, _)
InsertSorted(sorted, x) ==
    IF sorted = <<>> THEN <<x>>
    ELSE IF x.k < Head(sorted).k THEN <<x>> \o sorted
    ELSE <<Head(sorted)>> \o InsertSorted(Tail(sorted), x)

RECURSIVE SortKeyed(_)
SortKeyed(keyed) ==
    IF keyed = <<>> THEN <<>>
    ELSE InsertSorted(SortKeyed(SubSeq(keyed, 1, Len(keyed) - 1)), keyed[Len(keyed)])

\* sorted(seq, key=...): stable, ascending; keys[i] is the key of seq[i]
SortedBy(seq, keys) ==
    LET keyed == SortKeyed([i \in 1..Len(seq) |-> [k |-> keys[i], v |-> seq[i]]])
    IN  [i \in 1..Len(seq) |-> keyed[i].v]

\* any(buckets.values())
AnyBucket(buckets) == \E b \in OrderSet : buckets[b] # <<>>

\* the "for b in order" pass of _diversify, from position i of order
RECURSIVE DiversifyPass(_, _, _, _)
DiversifyPass(buckets, out, i, per_day) ==
    IF i > Len(order) \/ Len(out) >= per_day THEN [buckets |-> buckets, out |-> out]
    ELSE IF buckets[order[i]] # <<>>
         THEN DiversifyPass([buckets EXCEPT ![order[i]] = Tail(@)],
                            Append(out, Head(buckets[order[i]])), i + 1, per_day)
         ELSE DiversifyPass(buckets, out, i + 1, per_day)

\* the "while" loop of _diversify
RECURSIVE DiversifyLoop(_, _, _, _)
DiversifyLoop(buckets, other, out, per_day) ==
    IF ~(Len(out) < per_day /\ (AnyBucket(buckets) \/ other # <<>>)) THEN out
    ELSE LET p == DiversifyPass(buckets, out, 1, per_day)
             takeOne == Len(p.out) < per_day /\ other # <<>>
             out2 == IF takeOne THEN Append(p.out, Head(other)) ELSE p.out
             other2 == IF takeOne THEN Tail(other) ELSE other
         IN  IF Len(out2) >= per_day THEN out2
             ELSE IF ~AnyBucket(p.buckets) /\ other2 # <<>>
                  THEN LET n == Min(Len(other2), per_day - Len(out2))
                       IN  DiversifyLoop(p.buckets, SubSeq(other2, n + 1, Len(other2)),
                                         out2 \o SubSeq(other2, 1, n), per_day)
                  ELSE DiversifyLoop(p.buckets, other2, out2, per_day)

\* InBucket with the items of the bucket in reverse order
InBucketReversed(items, b) ==
    LET Is(it) == it._bucket = b
        kept == SelectSeq(items, Is)
    IN  [i \in 1..Len(kept) |-> kept[Len(kept) + 1 - i]]

InBucket(items, b) == LET Is(it) == it._bucket = b IN SelectSeq(items, Is)

\* _diversify without the walk over the buckets: the nearest per_day items
_diversify_nearest(items, per_day) == Take(items, per_day)

_diversify(items, per_day) ==
    LET IsOther(it) == it._bucket \notin OrderSet
    IN  DiversifyLoop([b \in OrderSet |-> InBucket(items, b)],
                      SelectSeq(items, IsOther), <<>>, per_day)

_deeplink_flights(origin_city, dest_city, depart, return_) ==
    [base |-> "https://www.google.com/travel/flights",
     q |-> IF origin_city # "" THEN <<"Flights from", origin_city, "to", dest_city>>
           ELSE <<"Flights to", dest_city>>,
     on |-> IF depart # None THEN isoformat(depart) ELSE None,
     return_ |-> IF return_ # None THEN isoformat(return_) ELSE None]

_deeplink_hotels(city, checkin, checkout) ==
    [base |-> "https://www.booking.com/searchresults.html",
     ss |-> city,
     checkin |-> checkin,
     checkout |-> checkout]

-----------------------------------------------------------------------------
(* The services' data *)

\* The routing service's answer for the trip from the caller's origin to a spot:
\* at most one route, with its distance in metres and its duration in seconds.
Route(metres, seconds) == [routes |-> <<[distance |-> metres, duration |-> seconds]>>]

NoRoute == [routes |-> <<>>]

\* An element of the spatial query's answer.  lat is the latitude of a node or
\* of the centre of a way, NoNum when the element has neither; name is the
\* value of its name tag, <<>> when it has none.
Element(type, name, lat, tags, osrm) ==
    [type |-> type, name |-> name, lat |-> lat, lon |-> 0, tags |-> tags, osrm |-> osrm]

\* A hit of the text search.
Hit(display_name, lat, osrm) ==
    [display_name |-> display_name, lat |-> lat, lon |-> 0, osrm |-> osrm]

Catalog == <<
    Element("node", <<"A">>, 42600,
            Tags("restaurant", "", "", "", "", ""), Route(900, 700)),
    Element("way", <<"a", ",", " ", "x">>, 41250,
            Tags("cafe", "", "", "", "", ""), Route(2000, 300)),
    Element("node", <<"B">>, 36250,
            Tags("", "bakery", "", "", "", ""), Route(7500, 5400)),
    Element("node", <<"C", " ", ",", "y">>, 55004,
            Tags("", "", "museum", "castle", "", ""), NoRoute),
    Element("way", <<"D">>, 55001,
            Tags("", "", "", "", "", "park"), Route(14000, 4000)),
    Element("node", <<",", "z">>, 40000,
            Tags("", "", "attraction", "", "", ""), Route(100, 80)),
    Element("node", <<>>, 45000, NoTags, Route(35000, 3000)),
    Element("way", <<"E">>, NoNum,
            Tags("", "", "", "ruins", "", ""), NoRoute) >>

\* Six places, one of each bucket, the nearest of the lowest priority.
RichElements == <<
    Element("node", <<"A", "a">>, 40100, Tags("", "", "", "", "", "garden"), Route(5100, 4000)),
    Element("node", <<"B", "b">>, 40200, Tags("cafe", "", "", "", "", ""), Route(5000, 3900)),
    Element("node", <<"C", "c">>, 40300, Tags("fast_food", "", "", "", "", ""), Route(4900, 3800)),
    Element("node", <<"D", "d">>, 40400, Tags("", "", "museum", "", "", ""), Route(4800, 3700)),
    Element("node", <<"E", "e">>, 40500, Tags("", "", "", "", "tower", ""), Route(4700, 3600)),
    Element("node", <<"F", "f">>, 40600, Tags("", "", "", "fort", "", ""), Route(4600, 3500)) >>

\* A second place to eat, for an answer in which a bucket holds several places.
Extra == <<
    Element("node", <<"F">>, 36000, Tags("food_court", "", "", "", "", ""), Route(4100, 3300)) >>

NoHits == <<<<>>, <<>>, <<>>, <<>>>>

SomeHits == <<
    <<Hit(<<"b", ",", " ", "x">>, 39000, Route(500, 400))>>,
    <<Hit(<<"E">>, 43000, NoRoute), Hit(<<"A", " ", ",", "w">>, 38750, Route(1200, 900))>>,
    <<>>,
    <<Hit(<<"b", ",", " ", "x">>, 39000, Route(500, 400)), Hit(<<>>, 44000, Route(400, 20))>> >>

CityCenter == [lat |-> 40000, lng |-> 0]

Origin == [lat |-> 50000, lng |-> 0]

\* the ascending sequence of the elements of a set of numbers
RECURSIVE Ascending(_)
Ascending(S) ==
    IF S = {} THEN <<>>
    ELSE LET m == CHOOSE x \in S : \A y \in S : x <= y IN <<m>> \o Ascending(S \ {m})

\* the elements of the catalog at the positions of S, in catalog order
Selection(S) == LET idx == Ascending(S) IN [i \in 1..Len(idx) |-> Catalog[idx[i]]]

World(overpass, nominatim) == [overpass |-> overpass, nominatim |-> nominatim]

-----------------------------------------------------------------------------
(* plan_trip *)

Modes == {"foot", "bike", "driving"}

BACKFILL_BELOW == 12

FALLBACK_KEEP == 20

LOOKAHEAD_FACTOR == 4

\* One place more than the last resort keeps, every one routed beyond the
\* walking and cycling radius.  The first two lie within a metre of each
\* other, the farther one first, and are the farthest from the origin.
FarElements ==
    [i \in 1..(FALLBACK_KEEP + 1) |->
        Element("node",
                <<LowerChars[((i - 1) \div 6) + 1], LowerChars[((i - 1) % 6) + 1], "u">>,
                IF i = 1 THEN 140034 ELSE IF i = 2 THEN 140026 ELSE 140000 - 300 * i,
                IF i % 2 = 0 THEN Tags("cafe", "", "", "", "", "")
                ELSE Tags("", "", "museum", "", "", ""),
                Route(13000 + 10 * i, 9000))]

\* The keys of OSM_TAGS, each as the text of an interest and as the bucket.
OSM_TAGS ==
    {[term |-> <<"f", "o", "o", "d">>, bucket |-> "food"],
     [term |-> <<"c", "a", "f", "e", "s">>, bucket |-> "cafes"],
     [term |-> <<"m", "u", "s", "e", "u", "m", "s">>, bucket |-> "museums"],
     [term |-> <<"h", "i", "s", "t", "o", "r", "y">>, bucket |-> "history"],
     [term |-> <<"l", "a", "n", "d", "m", "a", "r", "k", "s">>, bucket |-> "landmarks"],
     [term |-> <<"p", "a", "r", "k", "s">>, bucket |-> "parks"]}

\* BUCKET_OF_TERM, the text of each term with its bucket.
BUCKET_OF_TERM ==
    {[term |-> <<"r", "e", "s", "t", "a", "u", "r", "a", "n", "t">>, bucket |-> "food"],
     [term |-> <<"r", "e", "s", "t", "a", "u", "r", "a", "n", "t", "s">>, bucket |-> "food"],
     [term |-> <<"b", "a", "k", "e", "r", "y">>, bucket |-> "food"],
     [term |-> <<"k", "e", "b", "a", "b">>, bucket |-> "food"],
     [term |-> <<"m", "e", "z", "e">>, bucket |-> "food"],
     [term |-> <<"s", "t", "r", "e", "e", "t", " ", "f", "o", "o", "d">>, bucket |-> "food"],
     [term |-> <<"l", "o", "k", "a", "n", "t", "a">>, bucket |-> "food"],
     [term |-> <<"c", "a", "f", "e">>, bucket |-> "cafes"],
     [term |-> <<"c", "a", "f", "e", "s">>, bucket |-> "cafes"],
     [term |-> <<"c", "o", "f", "f", "e", "e">>, bucket |-> "cafes"],
     [term |-> <<"c", "o", "f", "f", "e", "e", " ", "s", "h", "o", "p">>, bucket |-> "cafes"],
     [term |-> <<"m", "u", "s", "e", "u", "m">>, bucket |-> "museums"],
     [term |-> <<"m", "u", "s", "e", "u", "m", "s">>, bucket |-> "museums"],
     [term |-> <<"a", "r", "t", " ", "m", "u", "s", "e", "u", "m">>, bucket |-> "museums"],
     [term |-> <<"h", "i", "s", "t", "o", "r", "i", "c">>, bucket |-> "history"],
     [term |-> <<"h", "i", "s", "t", "o", "r", "i", "c", "a", "l", " ", "s", "i", "t", "e", "s">>, bucket |-> "history"],
     [term |-> <<"m", "o", "s", "q", "u", "e">>, bucket |-> "history"],
     [term |-> <<"p", "a", "l", "a", "c", "e">>, bucket |-> "history"],
     [term |-> <<"b", "a", "s", "i", "l", "i", "c", "a">>, bucket |-> "history"],
     [term |-> <<"a", "r", "c", "h", "a", "e", "o", "l", "o", "g", "y">>, bucket |-> "history"],
     [term |-> <<"l", "a", "n", "d", "m", "a", "r", "k", "s">>, bucket |-> "landmarks"],
     [term |-> <<"m", "o", "n", "u", "m", "e", "n", "t", "s">>, bucket |-> "landmarks"],
     [term |-> <<"v", "i", "e", "w", "p", "o", "i", "n", "t", "s">>, bucket |-> "landmarks"],
     [term |-> <<"v", "i", "e", "w", "p", "o", "i", "n", "t">>, bucket |-> "landmarks"],
     [term |-> <<"t", "o", "w", "e", "r">>, bucket |-> "landmarks"],
     [term |-> <<"p", "a", "r", "k", "s">>, bucket |-> "parks"],
     [term |-> <<"p", "a", "r", "k">>, bucket |-> "parks"],
     [term |-> <<"g", "a", "r", "d", "e", "n", "s">>, bucket |-> "parks"],
     [term |-> <<"p", "r", "o", "m", "e", "n", "a", "d", "e">>, bucket |-> "parks"]}

DEFAULT_INTERESTS ==
    <<<<"l", "a", "n", "d", "m", "a", "r", "k", "s">>,
      <<"m", "u", "s", "e", "u", "m", "s">>,
      <<"c", "a", "f", "e", "s">>,
      <<"p", "a", "r", "k", "s">>>>

\* the bucket a raw interest adds, "" when it adds none (lines 307-312)
bucket_of_interest(t) ==
    LET n == Lower(Strip(t))
    IN  IF \E k \in OSM_TAGS : k.term = n
        THEN (CHOOSE k \in OSM_TAGS : k.term = n).bucket
        ELSE IF \E e \in BUCKET_OF_TERM : e.term = n
             THEN (CHOOSE e \in BUCKET_OF_TERM : e.term = n).bucket
             ELSE ""

\* choose_buckets with the fallback set for a missing list of interests too
choose_buckets_no_default(interests) ==
    LET found == {bucket_of_interest(interests[i]) : i \in 1..Len(interests)} \ {""}
    IN  IF found = {} THEN {"landmarks", "museums", "cafes", "food", "parks"} ELSE found

\* lines 305-314: the buckets of the spatial query; a missing list of
\* interests and an empty one are both <<>>
choose_buckets(interests) ==
    LET tokens == IF interests # <<>> THEN interests ELSE DEFAULT_INTERESTS
        found == {bucket_of_interest(tokens[i]) : i \in 1..Len(tokens)} \ {""}
    IN  IF found = {} THEN {"landmarks", "museums", "cafes", "food", "parks"} ELSE found

Queries == <<"museum in ", "restaurant in ", "cafe in ", "park in ">>

HasOrigin == args.origin_lat # NoNum /\ args.origin_lng # NoNum

\* trip_dates without the test that the end is not before the start
trip_dates_unordered(start_date, end_date, t) ==
    LET p0 == _parse_date(start_date)
        p1 == _parse_date(end_date)
    IN  IF p0 = None \/ p1 = None
        THEN _future_default_range(t)
        ELSE <<p0, p1>>

\* lines 278-281: the trip's first and last date
trip_dates(start_date, end_date, t) ==
    LET p0 == _parse_date(start_date)
        p1 == _parse_date(end_date)
    IN  IF p0 = None \/ p1 = None \/ DateLt(p1, p0)
        THEN _future_default_range(t)
        ELSE <<p0, p1>>

\* not_located without the links
not_located_no_links(a, first, last) ==
    [destination |-> a.destination,
     start_date |-> isoformat(first),
     end_date |-> isoformat(last),
     mode |-> a.mode,
     itinerary |-> <<>>,
     links |-> [flights |-> [base |-> "", q |-> <<>>], hotels |-> [base |-> "", ss |-> ""]],
     notes |-> "Could not locate the city center for your destination."]

\* the dict returned when the center is not found
not_located(a, first, last) ==
    [destination |-> a.destination,
     start_date |-> isoformat(first),
     end_date |-> isoformat(last),
     mode |-> a.mode,
     itinerary |-> <<>>,
     links |-> [flights |-> _deeplink_flights("", a.destination, first, last),
                hotels |-> _deeplink_hotels(a.destination, first, last)],
     notes |-> "Could not locate the city center for your destination."]

\* the dict returned at the end
planned(a, first, last, itinerary) ==
    [destination |-> a.destination,
     start_date |-> isoformat(first),
     end_date |-> isoformat(last),
     mode |-> a.mode,
     itinerary |-> itinerary,
     links |-> [flights |-> _deeplink_flights("", a.destination, first, last),
                hotels |-> _deeplink_hotels(a.destination, first, last)],
     notes |-> "POIs from Overpass + Nominatim fallback; diversified days; realistic walking times; global de-dup across days."]

map_url(la, lo) == <<"https://www.openstreetmap.org/", la, lo>>

NameOr(name) == IF Strip(name) # <<>> THEN Strip(name) ELSE UnnamedPlace

\* the candidates _overpass_search makes of the answer's elements
_overpass_search(elements) ==
    LET Located(el) == el.lat # NoNum
        located == SelectSeq(elements, Located)
    IN  [i \in 1..Len(located) |->
            [name |-> Strip(IF located[i].name # <<>> THEN located[i].name ELSE UnnamedPlace),
             lat |-> located[i].lat,
             lng |-> located[i].lon,
             map_url |-> map_url(located[i].lat, located[i].lon),
             _tags |-> located[i].tags,
             _d_center_km |-> NoNum,
             osrm |-> located[i].osrm]]

\* the candidates _nominatim_search makes of the answer's hits
_nominatim_search(hits) ==
    [i \in 1..Len(hits) |->
        [name |-> NameOr(hits[i].display_name),
         lat |-> hits[i].lat,
         lng |-> hits[i].lon,
         map_url |-> map_url(hits[i].lat, hits[i].lon),
         _tags |-> NoTags,
         _d_center_km |-> NoNum,
         osrm |-> hits[i].osrm]]

\* position of key among the keys of best, 0 when absent
KeyIndex(best, key) ==
    IF \E i \in 1..Len(best) : best[i].key = key
    THEN CHOOSE i \in 1..Len(best) : best[i].key = key
    ELSE 0

\* lines 329-336, from candidate i on; best is the dict best_by_name as the
\* sequence of its (key, value) pairs in insertion order
RECURSIVE best_by_name(_, _, _, _)
best_by_name(candidates, i, c, best) ==
    IF i > Len(candidates) THEN best
    ELSE LET p == candidates[i]
             key == _norm_name(p.name)
             d_center == _haversine_km(c.lat, c.lng, p.lat, p.lng)
             q == [p EXCEPT !._d_center_km = d_center]
             at == KeyIndex(best, key)
         IN  IF key = <<>> THEN best_by_name(candidates, i + 1, c, best)
             ELSE IF at = 0
                  THEN best_by_name(candidates, i + 1, c, Append(best, [key |-> key, p |-> q]))
                  ELSE IF d_center < best[at].p._d_center_km
                       THEN best_by_name(candidates, i + 1, c, [best EXCEPT ![at].p = q])
                       ELSE best_by_name(candidates, i + 1, c, best)

\* dedup without the grouping by key: every named candidate is kept
dedup_keep_all(candidates, c) ==
    LET Named(p) == _norm_name(p.name) # <<>>
        named == SelectSeq(candidates, Named)
        values == [i \in 1..Len(named) |->
                     [named[i] EXCEPT !._d_center_km =
                         _haversine_km(c.lat, c.lng, named[i].lat, named[i].lng)]]
    IN  SortedBy(values, [i \in 1..Len(values) |-> Round3(values[i]._d_center_km)])

\* lines 327-338
dedup(candidates, c) ==
    LET best == best_by_name(candidates, 1, c, <<>>)
        values == [i \in 1..Len(best) |-> best[i].p]
    IN  SortedBy(values, [i \in 1..Len(values) |-> Round3(values[i]._d_center_km)])

_osrm_time(answer) ==
    IF answer.routes = <<>>
    THEN [distance_km |-> NoNum, duration_min |-> NoNum]
    ELSE [distance_km |-> Round2(answer.routes[1].distance * 10),
          duration_min |-> Round(answer.routes[1].duration, 60)]

Entry(p, distance_km, duration_min) ==
    [name |-> SplitFirst(p.name),
     lat |-> p.lat,
     lng |-> p.lng,
     map_url |-> p.map_url,
     distance_km |-> distance_km,
     duration_min |-> duration_min,
     _bucket |-> _bucket_for_tags(p._tags)]

\* routed_entry with the walking minimum applied to a missing duration too
routed_entry_clamp_none(p, mode) ==
    LET trip == _osrm_time(p.osrm)
        m1 == IF mode = "foot" /\ _suspicious_foot(trip.distance_km, trip.duration_min)
              THEN _fallback_walk_minutes(IF trip.distance_km = NoNum THEN 0
                                          ELSE trip.distance_km)
              ELSE trip.duration_min
        m2 == IF mode = "foot" THEN Max(MIN_WALK_MIN, m1) ELSE m1
    IN  Entry(p, trip.distance_km, m2)

\* lines 354-360
routed_entry(p, mode) ==
    LET trip == _osrm_time(p.osrm)
        m1 == IF mode = "foot" /\ _suspicious_foot(trip.distance_km, trip.duration_min)
              THEN _fallback_walk_minutes(IF trip.distance_km = NoNum THEN 0
                                          ELSE trip.distance_km)
              ELSE trip.duration_min
        m2 == IF mode = "foot" /\ m1 # NoNum THEN Max(MIN_WALK_MIN, m1) ELSE m1
    IN  Entry(p, trip.distance_km, m2)

\* estimated_minutes with the bike's coefficient for driving too
estimated_minutes_bike(mode, dkm) ==
    IF mode = "foot" THEN Max(MIN_WALK_MIN, _fallback_walk_minutes(dkm))
    ELSE Round(dkm * 4, KM)

\* lines 364-370: minutes for a distance of dkm ticks to the anchor
estimated_minutes(mode, dkm) ==
    IF mode = "foot" THEN Max(MIN_WALK_MIN, _fallback_walk_minutes(dkm))
    ELSE IF mode = "bike" THEN Round(dkm * 4, KM)
    ELSE Round(dkm * 25, 10 * KM)

\* lines 362-370
estimated_entry(p, mode) ==
    Entry(p, Round2(p._d_center_km), estimated_minutes(mode, p._d_center_km))

max_km(mode) ==
    IF mode = "foot" THEN 6 * KM ELSE IF mode = "bike" THEN 12 * KM ELSE 30 * KM

\* within_radius with the driving radius for every mode
within_radius_any_mode(entries, mode) ==
    LET Near(e) == (IF e.distance_km = NoNum THEN 0 ELSE e.distance_km) <= 30 * KM
    IN  SelectSeq(entries, Near)

\* line 378
within_radius(entries, mode) ==
    LET Near(e) == (IF e.distance_km = NoNum THEN 0 ELSE e.distance_km) <= max_km(mode)
    IN  SelectSeq(entries, Near)

\* nearest without the cut to FALLBACK_KEEP entries
nearest_untruncated(candidates, o_lat, o_lng) ==
    LET all == [i \in 1..Len(candidates) |->
                  Entry(candidates[i],
                        Round2(_haversine_km(o_lat, o_lng, candidates[i].lat, candidates[i].lng)),
                        NoNum)]
    IN  SortedBy(all, [i \in 1..Len(all) |-> all[i].distance_km])

\* lines 381-386
nearest(candidates, o_lat, o_lng) ==
    LET all == [i \in 1..Len(candidates) |->
                  Entry(candidates[i],
                        Round2(_haversine_km(o_lat, o_lng, candidates[i].lat, candidates[i].lng)),
                        NoNum)]
    IN  Take(SortedBy(all, [i \in 1..Len(all) |-> all[i].distance_km]), FALLBACK_KEEP)

\* per_day one too large
per_day_off_by_one(limit_per_day) == Max(1, limit_per_day) + 1

per_day_of(limit_per_day) == Max(1, limit_per_day)

\* _key made of the first letter of the name alone
_key_initial(e) == <<Take(Lower(e.name), 1)>>

_key(e) == <<Lower(e.name), e.lat, e.lng>>

\* it = dict(it); it.pop("_bucket", None)
strip_helper(it) ==
    [name |-> it.name, lat |-> it.lat, lng |-> it.lng, map_url |-> it.map_url,
     distance_km |-> it.distance_km, duration_min |-> it.duration_min]

\* lines 409-421, from position i of diversified on
RECURSIVE pick(_, _, _, _, _, _)
pick(diversified, i, used, picked_keys, day_items, per_day) ==
    IF i > Len(diversified) THEN [items |-> day_items, keys |-> picked_keys]
    ELSE LET k == _key(diversified[i])
         IN  IF k \in used \/ k \in picked_keys
             THEN pick(diversified, i + 1, used, picked_keys, day_items, per_day)
             ELSE LET items == Append(day_items, strip_helper(diversified[i]))
                      keys == picked_keys \cup {k}
                  IN  IF Len(items) >= per_day THEN [items |-> items, keys |-> keys]
                      ELSE pick(diversified, i + 1, used, keys, items, per_day)

\* lookahead over the whole pool
lookahead_whole_pool(entries, per_day) == entries

\* line 405
lookahead(entries, per_day) == Take(entries, per_day * LOOKAHEAD_FACTOR)

Bump(service) == [calls EXCEPT ![service] = @ + 1]

ParseDates ==
    /\ pc = "dates"
    /\ LET r == trip_dates(args.start_date, args.end_date, today)
       IN  /\ d0' = r[1]
           /\ d1' = r[2]
           /\ days' = _date_range(r[1], r[2])
    /\ pc' = "center"
    /\ UNCHANGED <<agent, args, today, world, sample, tag_buckets, center, raw, qi, pois, enriched, pool, plan,
                   used_keys, result, error, calls, geo, fallback, windows>>

CenterFromOrigin ==
    /\ pc = "center"
    /\ HasOrigin
    /\ center' = [lat |-> args.origin_lat, lng |-> args.origin_lng]
    /\ tag_buckets' = choose_buckets(args.interests)
    /\ pc' = "overpass"
    /\ UNCHANGED <<agent, args, today, world, sample, d0, d1, days, raw, qi, pois, enriched, pool,
                   plan, used_keys, result, error, calls, geo, fallback, windows>>

GeocodeRaises ==
    /\ pc = "center"
    /\ ~HasOrigin
    /\ calls' = Bump("geocode")
    /\ error' = "geocode"
    /\ pc' = "raised"
    /\ UNCHANGED <<agent, args, today, world, sample, tag_buckets, d0, d1, days, center, raw, qi, pois, enriched,
                   pool, plan, used_keys, result, geo, fallback, windows>>

GeocodeEmpty ==
    /\ pc = "center"
    /\ ~HasOrigin
    /\ calls' = Bump("geocode")
    /\ geo' = "empty"
    /\ result' = not_located(args, d0, d1)
    /\ pc' = "done"
    /\ UNCHANGED <<agent, args, today, world, sample, tag_buckets, d0, d1, days, center, raw, qi, pois, enriched,
                   pool, plan, used_keys, error, fallback, windows>>

GeocodeFound ==
    /\ pc = "center"
    /\ ~HasOrigin
    /\ calls' = Bump("geocode")
    /\ geo' = "found"
    /\ center' = CityCenter
    /\ tag_buckets' = choose_buckets(args.interests)
    /\ pc' = "overpass"
    /\ UNCHANGED <<agent, args, today, world, sample, d0, d1, days, raw, qi, pois, enriched, pool,
                   plan, used_keys, result, error, fallback, windows>>

OverpassRaises ==
    /\ pc = "overpass"
    /\ calls' = Bump("overpass")
    /\ error' = "overpass"
    /\ pc' = "raised"
    /\ UNCHANGED <<agent, args, today, world, sample, tag_buckets, d0, d1, days, center, raw, qi, pois, enriched,
                   pool, plan, used_keys, result, geo, fallback, windows>>

OverpassReturns ==
    /\ pc = "overpass"
    /\ calls' = Bump("overpass")
    /\ raw' = _overpass_search(world.overpass)
    /\ pc' = IF Len(raw') < BACKFILL_BELOW THEN "backfill" ELSE "dedup"
    /\ UNCHANGED <<agent, args, today, world, sample, tag_buckets, d0, d1, days, center, qi, pois, enriched, pool,
                   plan, used_keys, result, error, geo, fallback, windows>>

\* a failed text search taken for an empty answer
NominatimSkipped ==
    /\ pc = "backfill"
    /\ calls' = Bump("nominatim")
    /\ error' = "nominatim"
    /\ qi' = qi + 1
    /\ pc' = IF qi = Len(Queries) THEN "dedup" ELSE "backfill"
    /\ UNCHANGED <<agent, args, today, world, sample, tag_buckets, d0, d1, days, center, raw, pois, enriched,
                   pool, plan, used_keys, result, geo, fallback, windows>>

NominatimRaises ==
    /\ pc = "backfill"
    /\ calls' = Bump("nominatim")
    /\ error' = "nominatim"
    /\ pc' = "raised"
    /\ UNCHANGED <<agent, args, today, world, sample, tag_buckets, d0, d1, days, center, raw, qi, pois, enriched,
                   pool, plan, used_keys, result, geo, fallback, windows>>

NominatimReturns ==
    /\ pc = "backfill"
    /\ calls' = Bump("nominatim")
    /\ raw' = raw \o _nominatim_search(world.nominatim[qi])
    /\ qi' = qi + 1
    /\ pc' = IF qi = Len(Queries) THEN "dedup" ELSE "backfill"
    /\ UNCHANGED <<agent, args, today, world, sample, tag_buckets, d0, d1, days, center, pois, enriched, pool,
                   plan, used_keys, result, error, geo, fallback, windows>>

\* Dedup keeping, of every key, the candidate seen first
DedupFirstSeen ==
    /\ pc = "dedup"
    /\ LET seen == [i \in 1..Len(raw) |->
                      [i |-> i,
                       p |-> [raw[i] EXCEPT !._d_center_km =
                                 _haversine_km(center.lat, center.lng, raw[i].lat, raw[i].lng)]]]
           First(x) == /\ _norm_name(x.p.name) # <<>>
                       /\ \A j \in 1..(x.i - 1) : _norm_name(raw[j].name) # _norm_name(x.p.name)
           firsts == SelectSeq(seen, First)
           values == [i \in 1..Len(firsts) |-> firsts[i].p]
       IN  pois' = SortedBy(values, [i \in 1..Len(values) |-> Round3(values[i]._d_center_km)])
    /\ pc' = "enrich"
    /\ UNCHANGED <<agent, args, today, world, sample, tag_buckets, d0, d1, days, center, raw, qi, enriched, pool,
                   plan, used_keys, result, error, calls, geo, fallback, windows>>

Dedup ==
    /\ pc = "dedup"
    /\ pois' = dedup(raw, center)
    /\ pc' = "enrich"
    /\ UNCHANGED <<agent, args, today, world, sample, tag_buckets, d0, d1, days, center, raw, qi, enriched, pool,
                   plan, used_keys, result, error, calls, geo, fallback, windows>>

RoutingRaises ==
    /\ pc = "enrich"
    /\ HasOrigin
    /\ Len(enriched) < Len(pois)
    /\ calls' = Bump("osrm")
    /\ error' = "osrm"
    /\ pc' = "raised"
    /\ UNCHANGED <<agent, args, today, world, sample, tag_buckets, d0, d1, days, center, raw, qi, pois, enriched,
                   pool, plan, used_keys, result, geo, fallback, windows>>

EnrichRouted ==
    /\ pc = "enrich"
    /\ HasOrigin
    /\ Len(enriched) < Len(pois)
    /\ calls' = Bump("osrm")
    /\ enriched' = Append(enriched, routed_entry(pois[Len(enriched) + 1], args.mode))
    /\ UNCHANGED <<agent, args, today, world, sample, tag_buckets, pc, d0, d1, days, center, raw, qi, pois, pool,
                   plan, used_keys, result, error, geo, fallback, windows>>

EnrichEstimated ==
    /\ pc = "enrich"
    /\ ~HasOrigin
    /\ Len(enriched) < Len(pois)
    /\ enriched' = Append(enriched, estimated_entry(pois[Len(enriched) + 1], args.mode))
    /\ UNCHANGED <<agent, args, today, world, sample, tag_buckets, pc, d0, d1, days, center, raw, qi, pois, pool,
                   plan, used_keys, result, error, calls, geo, fallback, windows>>

\* lines 373-400
FilterAndPool ==
    /\ pc = "enrich"
    /\ Len(enriched) = Len(pois)
    /\ LET kept == IF HasOrigin THEN within_radius(enriched, args.mode) ELSE enriched
           last_resort == HasOrigin /\ kept = <<>>
           final == IF last_resort THEN nearest(pois, args.origin_lat, args.origin_lng)
                    ELSE kept
       IN  /\ enriched' = final
           /\ fallback' = last_resort
           /\ pool' = final
    /\ plan' = <<>>
    /\ used_keys' = {}
    /\ pc' = "allocate"
    /\ UNCHANGED <<agent, args, today, world, sample, tag_buckets, d0, d1, days, center, raw, qi, pois, result,
                   error, calls, geo, windows>>

\* AllocateDay as a loop over every date, each emitted whatever it holds
AllocateEveryDate ==
    /\ pc = "allocate"
    /\ days # <<>>
    /\ LET per_day == per_day_of(args.limit_per_day)
           day == Head(days)
           ahead == lookahead(pool, per_day)
           diversified == _diversify(ahead, per_day)
           got == pick(diversified, 1, used_keys, {}, <<>>, per_day)
           Unused(e) == _key(e) \notin used_keys'
       IN  /\ days' = Tail(days)
           /\ plan' = Append(plan, [date |-> isoformat(day), items |-> got.items])
           /\ windows' = Append(windows, ahead)
           /\ used_keys' = used_keys \cup got.keys
           /\ pool' = SelectSeq(pool, Unused)
    /\ UNCHANGED <<agent, args, today, world, sample, tag_buckets, pc, d0, d1, center, raw, qi, pois, enriched,
                   result, error, calls, geo, fallback>>

\* lines 402-428, one iteration
AllocateDay ==
    /\ pc = "allocate"
    /\ days # <<>>
    /\ pool # <<>>
    /\ LET per_day == per_day_of(args.limit_per_day)
           day == Head(days)
           ahead == lookahead(pool, per_day)
           diversified == _diversify(ahead, per_day)
           got == pick(diversified, 1, used_keys, {}, <<>>, per_day)
           Unused(e) == _key(e) \notin used_keys'
       IN  /\ days' = Tail(days)
           /\ plan' = IF got.items # <<>>
                      THEN Append(plan, [date |-> isoformat(day), items |-> got.items])
                      ELSE plan
           /\ windows' = IF got.items # <<>> THEN Append(windows, ahead) ELSE windows
           /\ used_keys' = used_keys \cup got.keys
           /\ pool' = SelectSeq(pool, Unused)
    /\ UNCHANGED <<agent, args, today, world, sample, tag_buckets, pc, d0, d1, center, raw, qi, pois, enriched,
                   result, error, calls, geo, fallback>>

Return ==
    /\ pc = "allocate"
    /\ days = <<>> \/ pool = <<>>
    /\ result' = planned(args, d0, d1, plan)
    /\ pc' = "done"
    /\ UNCHANGED <<agent, args, today, world, sample, tag_buckets, d0, d1, days, center, raw, qi, pois, enriched,
                   pool, plan, used_keys, error, calls, geo, fallback, windows>>

Next ==
    \/ ParseDates
    \/ CenterFromOrigin
    \/ GeocodeRaises
    \/ GeocodeEmpty
    \/ GeocodeFound
    \/ OverpassRaises
    \/ OverpassReturns
    \/ NominatimRaises
    \/ NominatimReturns
    \/ Dedup
    \/ RoutingRaises
    \/ EnrichRouted
    \/ EnrichEstimated
    \/ FilterAndPool
    \/ AllocateDay
    \/ Return

-----------------------------------------------------------------------------
(* The calls explored *)

MaxElems == 2

MaxLimit == 2

\* the answers of the spatial query: up to MaxElems elements of the catalog,
\* with or without text-search hits; the six-bucket answer; and an answer of
\* at least BACKFILL_BELOW located elements
Worlds ==
    {World(Selection(S), h) :
        S \in {T \in SUBSET (1..Len(Catalog)) : Cardinality(T) <= MaxElems},
        h \in {NoHits, SomeHits}}
    \cup {World(RichElements, NoHits), World(Catalog \o RichElements \o Extra, NoHits),
          World(FarElements, NoHits)}

Limits == (0..MaxLimit) \cup {Len(order)}

Origins == {[lat |-> NoNum, lng |-> NoNum], Origin}

Call(dates, mode, o, limit) ==
    [destination |-> "Algiers",
     start_date |-> dates[1],
     end_date |-> dates[2],
     mode |-> mode,
     origin_lat |-> o.lat,
     origin_lng |-> o.lng,
     limit_per_day |-> limit,
     interests |-> <<>>]

\* the state at the entry of plan_trip
Entered ==
    /\ pc = "dates"
    /\ d0 = None /\ d1 = None /\ days = <<>>
    /\ center = None
    /\ raw = <<>> /\ qi = 1 /\ pois = <<>> /\ enriched = <<>>
    /\ pool = <<>> /\ plan = <<>> /\ used_keys = {}
    /\ result = None
    /\ error = "none"
    /\ calls = [geocode |-> 0, overpass |-> 0, nominatim |-> 0, osrm |-> 0]
    /\ geo = "unasked"
    /\ fallback = FALSE
    /\ windows = <<>>
    /\ sample = [items |-> <<>>, per_day |-> 1, out |-> <<>>]
    /\ tag_buckets = {}
    /\ agent = NoAgent

SomeDates ==
    {<<None, None>>,
     <<DateText(28, "/", 2, "/", 2028), DateText(2028, "-", 2, "-", 29)>>}

Init ==
    /\ args \in {Call(dt, m, o, l) : dt \in SomeDates, m \in Modes, o \in Origins, l \in Limits}
    /\ today = Date(2028, 2, 22)
    /\ world \in Worlds
    /\ Entered

Spec == Init /\ [][Next]_vars

\* The date handling alone: every pair of date arguments, on two days.
DateFields ==
    {<<y, m, d>> : y \in {2027, 2028}, m \in {2, 13}, d \in {1, 29, 30}}

DateArgs ==
    {DateText(f[1], sep, f[2], sep, f[3]) : f \in DateFields, sep \in {"-", "/"}}
    \cup {DateText(f[3], sep, f[2], sep, f[1]) : f \in DateFields, sep \in {"-", "/"}}
    \cup {None, EmptyText,
          DateText(2028, ".", 2, ".", 1),
          DateText(2028, "-", 2, "/", 1)}

InitDates ==
    /\ args \in {Call(<<s, e>>, "foot", [lat |-> NoNum, lng |-> NoNum], 1) :
                    s \in DateArgs, e \in DateArgs}
    /\ today \in {Date(2028, 2, 20), Date(2027, 12, 24)}
    /\ world = World(<<>>, NoHits)
    /\ Entered

NextDates ==
    \/ ParseDates
    \/ GeocodeEmpty

SpecDates == InitDates /\ [][NextDates]_vars

\* The choice of the buckets alone: every list of up to MaxTokens interests.
MaxTokens == 2

InterestTokens ==
    {<<>>,
     <<" ">>,
     <<"n", "i", "g", "h", "t", "l", "i", "f", "e">>,
     <<"f", "o", "o", "d", "s">>,
     <<"F", "O", "O", "D">>,
     <<" ", "C", "a", "f", "e", " ">>,
     <<"h", "i", "s", "t", "o", "r", "i", "c">>}

InterestLists == UNION {[1..n -> InterestTokens] : n \in 0..MaxTokens}

InitInterests ==
    /\ args \in {[Call(<<None, None>>, "foot", o, 1) EXCEPT !.interests = l] :
                    o \in Origins, l \in InterestLists}
    /\ today = Date(2028, 2, 20)
    /\ world = World(<<>>, NoHits)
    /\ Entered

NextInterests ==
    \/ ParseDates
    \/ CenterFromOrigin
    \/ GeocodeFound

SpecInterests == InitInterests /\ [][NextInterests]_vars

\* _diversify alone: every list of up to MaxItems items over four buckets, one
\* of them not among the six, for every per_day up to MaxItems.
MaxItems == 4

SampleBuckets == {"history", "food", "parks", "nightlife"}

\* the items of a list are told apart by their position in it
SampleItems ==
    UNION {{[i \in 1..n |-> [name |-> i, _bucket |-> b[i]]] : b \in [1..n -> SampleBuckets]} :
              n \in 0..MaxItems}

InitDiversify ==
    /\ args = Call(<<None, None>>, "foot", [lat |-> NoNum, lng |-> NoNum], 1)
    /\ today = Date(2028, 2, 20)
    /\ world = World(<<>>, NoHits)
    /\ d0 = None /\ d1 = None /\ days = <<>>
    /\ center = None
    /\ raw = <<>> /\ qi = 1 /\ pois = <<>> /\ enriched = <<>>
    /\ pool = <<>> /\ plan = <<>> /\ used_keys = {}
    /\ result = None
    /\ error = "none"
    /\ calls = [geocode |-> 0, overpass |-> 0, nominatim |-> 0, osrm |-> 0]
    /\ geo = "unasked"
    /\ fallback = FALSE
    /\ windows = <<>>
    /\ tag_buckets = {}
    /\ agent = NoAgent
    /\ pc = "diversify"
    /\ sample \in {[items |-> it, per_day |-> n, out |-> <<>>] :
                      it \in SampleItems, n \in 0..MaxItems}

\* out = _diversify(items, per_day)
Diversify ==
    /\ pc = "diversify"
    /\ sample' = [sample EXCEPT !.out = _diversify(sample.items, sample.per_day)]
    /\ pc' = "diversified"
    /\ UNCHANGED <<agent, args, today, world, tag_buckets, d0, d1, days, center, raw, qi, pois, enriched,
                   pool, plan, used_keys, result, error, calls, geo, fallback, windows>>

NextDiversify == Diversify

SpecDiversify == InitDiversify /\ [][NextDiversify]_vars

-----------------------------------------------------------------------------
(* run_agent *)

\* range(12): the steps of the loop
MAX_STEPS == 12

\* the prefixes _looks_like_a_question tests with str.startswith
QUESTION_STARTS ==
    {<<"w", "h", "a", "t", " ">>,
     <<"w", "h", "i", "c", "h", " ">>,
     <<"w", "h", "e", "r", "e", " ">>,
     <<"w", "h", "e", "n", " ">>,
     <<"h", "o", "w", " ">>,
     <<"d", "o", " ", "y", "o", "u", " ">>,
     <<"a", "r", "e", " ", "y", "o", "u", " ">>}

\* s.startswith(prefix)
StartsWith(s, prefix) ==
    Len(prefix) <= Len(s) /\ SubSeq(s, 1, Len(prefix)) = prefix

\* c in s
HasChar(s, c) == \E i \in 1..Len(s) : s[i] = c

_looks_like_a_question(text) ==
    IF text = <<>> THEN FALSE
    ELSE LET t == Lower(Strip(text))
         IN  HasChar(t, "?") \/ \E q \in QUESTION_STARTS : StartsWith(t, q)

\* the message returned after the loop
APOLOGY ==
    <<"S", "o", "r", "r", "y", ",", " ", "I", " ", "c", "o", "u", "l", "d",
      "n", "'", "t", " ", "c", "o", "m", "p", "l", "e", "t", "e", " ", "t",
      "h", "e", " ", "r", "e", "q", "u", "e", "s", "t", " ", "i", "n", " ",
      "t", "i", "m", "e", ".", " ", "P", "l", "e", "a", "s", "e", " ", "t",
      "r", "y", " ", "a", "g", "a", "i", "n", " ", "w", "i", "t", "h", " ",
      "a", " ", "b", "i", "t", " ", "m", "o", "r", "e", " ", "d", "e", "t",
      "a", "i", "l", ".">>

\* the message of the nearby short-circuit without cards
NO_RESULTS ==
    <<"N", "o", " ", "r", "e", "s", "u", "l", "t", "s", " ", "f", "o", "u",
      "n", "d", ".">>

\* f"Network error contacting OpenAI ({type(e).__name__}): {e}", for a timeout
NETWORK_ERROR ==
    <<"N", "e", "t", "w", "o", "r", "k", " ", "e", "r", "r", "o", "r", " ",
      "c", "o", "n", "t", "a", "c", "t", "i", "n", "g", " ", "O", "p", "e",
      "n", "A", "I", " ", "(", "A", "P", "I", "T", "i", "m", "e", "o", "u",
      "t", "E", "r", "r", "o", "r", ")", ":", " ", "R", "e", "q", "u", "e",
      "s", "t", " ", "t", "i", "m", "e", "d", " ", "o", "u", "t", ".">>

TOOL_NAMES ==
    {"nominatim_search", "osrm_walking_time", "wikipedia_summary",
     "nearby_search_with_walk", "ask_human", "plan_trip"}

\* a tool call of an assistant message; origin: whether its arguments hold
\* origin_lat and origin_lng
ToolCall(name, origin) == [name |-> name, origin |-> origin]

\* an assistant message; content None is <<>>
Message(tool_calls, content) ==
    [tool_calls |-> tool_calls, content |-> content, raised |-> FALSE]

\* no assistant message: the model call raised
NoMessage == [tool_calls |-> <<>>, content |-> <<>>, raised |-> TRUE]

\* the content of a tool message: the cards of nearby_search_with_walk, the
\* itinerary's dates of plan_trip, whether the tool was given an origin, and
\* the error of a name that is no tool
Output(name, origin, cards, itinerary) ==
    [name |-> name, origin |-> origin, cards |-> cards, itinerary |-> itinerary,
     error |-> name \notin TOOL_NAMES]

\* the outputs the tool of a call may return; plan_trip is called with the
\* origin of the user message when the call's arguments hold none
Outputs(tc, orig) ==
    IF tc.name = "nearby_search_with_walk"
    THEN {Output(tc.name, tc.origin, cards, <<>>) :
              cards \in {<<>>, <<"A">>, <<"A", "B", "C", "D">>}}
    ELSE IF tc.name = "plan_trip"
    THEN {Output(tc.name, tc.origin \/ orig, <<>>, itinerary) :
              itinerary \in {<<>>, <<"2028-03-01">>}}
    ELSE {Output(tc.name, tc.origin, <<>>, <<>>)}

Digits == <<"1", "2", "3">>

\* the text of the nearby short-circuit: the header with min(len(cards), 3),
\* then a line per card of cards[:3]
NearbyText(payload) ==
    IF payload.cards = <<>> THEN NO_RESULTS
    ELSE LET shown == Take(payload.cards, 3)
         IN  <<"H", "e", "r", "e", " ", "a", "r", "e", " ", Digits[Min(Len(payload.cards), 3)]>>
             \o [i \in 1..Len(shown) |-> shown[i]]

\* the text of the trip short-circuit: the header, then the itinerary's days or
\* the notice that there are none
TripText(payload) ==
    <<"T", "r", "i", "p", " ", "p", "l", "a", "n">>
    \o (IF payload.itinerary = <<>>
        THEN <<"N", "o", " ", "i", "t", "e", "m", "s">>
        ELSE <<"-">>)

\* the state at the head of the loop; messages is the length of the list: it
\* holds SYSTEM and the user message, and the note about the coordinates if
\* _extract_coords found some
Started(orig) ==
    [pc |-> "model",
     steps |-> 0,
     orig |-> orig,
     messages |-> IF orig THEN 3 ELSE 2,
     assistant_msg |-> Message(<<>>, <<>>),
     tool_messages |-> <<>>,
     returned |-> <<>>]

\* the tool calls and the contents the model answers with
MaxCalls == 2

\* n calls of the nearby tool in one assistant message
Repeated(n) == [i \in 1..n |-> ToolCall("nearby_search_with_walk", TRUE)]

CallLists ==
    {<<ToolCall(name, FALSE)>> :
         name \in {"nearby_search_with_walk", "plan_trip", "ask_human",
                   "wikipedia_summary", "teleport"}}
    \cup {<<ToolCall("plan_trip", TRUE)>>}
    \cup {Repeated(n) : n \in 2..MaxCalls}
    \cup {<<ToolCall("plan_trip", FALSE), ToolCall("wikipedia_summary", FALSE)>> : n \in 2..MaxCalls}

Contents ==
    {<<>>,
     <<" ", " ">>,
     <<" ", "O", "k", " ">>,
     <<"W", "h", "a", "t", "e", "v", "e", "r">>,
     <<"O", "k", "?">>,
     <<" ", "H", "O", "W", " ", "f", "a", "r">>,
     APOLOGY}

Responses ==
    {Message(tcs, <<>>) : tcs \in CallLists}
    \cup {Message(<<ToolCall("ask_human", FALSE)>>, <<" ", "O", "k", " ">>)}
    \cup {Message(<<>>, content) : content \in Contents}

\* client.chat.completions.create raises
ModelRaises ==
    /\ agent.pc = "model"
    /\ agent.steps < MAX_STEPS
    /\ agent' = [agent EXCEPT !.pc = "network_error",
                              !.steps = @ + 1,
                              !.assistant_msg = NoMessage,
                              !.returned = NETWORK_ERROR]
    /\ UNCHANGED trip_vars

\* client.chat.completions.create returns: one step of the loop up to its
\* first await, its continue or its return
ModelReplies ==
    /\ agent.pc = "model"
    /\ agent.steps < MAX_STEPS
    /\ \E msg \in Responses :
         LET content == Strip(msg.content)
             called == [agent EXCEPT !.steps = @ + 1, !.assistant_msg = msg]
         IN  agent' =
                 IF msg.tool_calls # <<>>
                 THEN [called EXCEPT !.messages = @ + 1,
                                     !.tool_messages = <<>>,
                                     !.pc = "tools"]
                 ELSE IF content = <<>>
                 THEN [called EXCEPT !.messages = @ + 1]
                 ELSE IF _looks_like_a_question(content)
                 THEN [called EXCEPT !.pc = "ask"]
                 ELSE [called EXCEPT !.pc = "final", !.returned = content]
    /\ UNCHANGED trip_vars

\* the awaited tool of the next tool call returns; after the last one, the
\* short-circuits or the continue (tool_messages is not read again before the
\* next step resets it)
ToolReturns ==
    /\ agent.pc = "tools"
    /\ LET tool_calls == agent.assistant_msg.tool_calls
           tc == tool_calls[Len(agent.tool_messages) + 1]
       IN  \E out \in Outputs(tc, agent.orig) :
             LET tool_messages == Append(agent.tool_messages, out)
                 told == [agent EXCEPT !.tool_messages = tool_messages,
                                       !.messages = @ + 1]
             IN  agent' =
                     IF Len(tool_messages) < Len(tool_calls)
                     THEN told
                     ELSE IF Len(tool_calls) = 1
                             /\ tool_calls[1].name = "nearby_search_with_walk"
                     THEN [told EXCEPT !.pc = "nearby_only",
                                       !.returned = NearbyText(tool_messages[1])]
                     ELSE IF Len(tool_calls) = 1 /\ tool_calls[1].name = "plan_trip"
                     THEN [told EXCEPT !.pc = "trip_only",
                                       !.returned = TripText(tool_messages[1])]
                     ELSE [told EXCEPT !.pc = "model", !.tool_messages = <<>>]
    /\ UNCHANGED trip_vars

\* the awaited ask_human of a question returns
HumanAnswers ==
    /\ agent.pc = "ask"
    /\ agent' = [agent EXCEPT !.messages = @ + 2,
                              !.pc = "model"]
    /\ UNCHANGED trip_vars

\* the apology one step early
ExhaustedEarly ==
    /\ agent.pc = "model"
    /\ agent.steps >= MAX_STEPS - 1
    /\ agent' = [agent EXCEPT !.pc = "exhausted", !.returned = APOLOGY]
    /\ UNCHANGED trip_vars

\* the loop is over: the return after it
Exhausted ==
    /\ agent.pc = "model"
    /\ agent.steps = MAX_STEPS
    /\ agent' = [agent EXCEPT !.pc = "exhausted", !.returned = APOLOGY]
    /\ UNCHANGED trip_vars

InitAgent ==
    /\ args = Call(<<None, None>>, "foot", [lat |-> NoNum, lng |-> NoNum], 1)
    /\ today = Date(2028, 2, 20)
    /\ world = World(<<>>, NoHits)
    /\ d0 = None /\ d1 = None /\ days = <<>>
    /\ center = None
    /\ raw = <<>> /\ qi = 1 /\ pois = <<>> /\ enriched = <<>>
    /\ pool = <<>> /\ plan = <<>> /\ used_keys = {}
    /\ result = None
    /\ error = "none"
    /\ calls = [geocode |-> 0, overpass |-> 0, nominatim |-> 0, osrm |-> 0]
    /\ geo = "unasked"
    /\ fallback = FALSE
    /\ windows = <<>>
    /\ sample = [items |-> <<>>, per_day |-> 1, out |-> <<>>]
    /\ tag_buckets = {}
    /\ pc = "agent"
    /\ agent \in {Started(orig) : orig \in BOOLEAN}

NextAgent ==
    \/ ModelRaises
    \/ ModelReplies
    \/ ToolReturns
    \/ HumanAnswers
    \/ Exhausted

\* the event loop resumes run_agent whenever the call it awaits has returned
SpecAgent == InitAgent /\ [][NextAgent]_vars /\ WF_vars(NextAgent)

-----------------------------------------------------------------------------
(* Properties *)

\* the itinerary, returned or under construction
Itinerary == IF result # None THEN result.itinerary ELSE plan

\* the (day, position) pairs of the itinerary's items
Slots == UNION {{<<k, j>> : j \in 1..Len(Itinerary[k].items)} : k \in 1..Len(Itinerary)}

ItemAt(slot) == Itinerary[slot[1]].items[slot[2]]

Returned == pc = "done" /\ geo # "empty"

\* C1: no two items of the itinerary, on the same day or on different days,
\* have the same normalized name key.
C1_GlobalDedup ==
    \A a \in Slots : \A b \in Slots :
        a # b => _norm_name(ItemAt(a).name) # _norm_name(ItemAt(b).name)

\* C1 witness: a returned itinerary of several days whose candidates held two
\* names of one key.
C1_Witness ==
    /\ Returned
    /\ Len(result.itinerary) >= 2
    /\ \E i \in 1..Len(raw) : \E j \in 1..Len(raw) :
          /\ i < j
          /\ raw[i].name # raw[j].name
          /\ _norm_name(raw[i].name) = _norm_name(raw[j].name)
          /\ _norm_name(raw[i].name) # <<>>

\* the bucket of an item of day k: that of the window's entry it was made of
BucketOf(k, item) ==
    (CHOOSE e \in {windows[k][i] : i \in 1..Len(windows[k])} : _key(e) = _key(item))._bucket

DayBuckets(k) == [j \in 1..Len(plan[k].items) |-> BucketOf(k, plan[k].items[j])]

WindowBuckets(k) == {windows[k][i]._bucket : i \in 1..Len(windows[k])}

\* C2: within a day no bucket appears a second time before every bucket of the
\* day's lookahead window has appeared once; a day of at least six items drawn
\* from a window holding all six buckets starts history, landmarks, museums,
\* food, cafes, parks.
C2_Diversified ==
    \A k \in 1..Len(plan) :
        LET B == DayBuckets(k)
        IN  /\ \A j \in 1..Len(B) :
                  (\E i \in 1..(j - 1) : B[i] = B[j])
                      => WindowBuckets(k) \subseteq {B[i] : i \in 1..(j - 1)}
            /\ (Len(B) >= 6 /\ WindowBuckets(k) = OrderSet)
                  => SubSeq(B, 1, 6) = <<"history", "landmarks", "museums",
                                          "food", "cafes", "parks">>

\* C2 witness: a day of six items from a window of all six buckets that was
\* not in priority order, and a day on which a bucket repeats.
C2_Witness ==
    /\ \E k \in 1..Len(plan) :
          /\ Len(plan[k].items) >= 6
          /\ WindowBuckets(k) = OrderSet
          /\ windows[k][1]._bucket # "history"
    /\ \E k \in 1..Len(plan) : \E j \in 2..Len(plan[k].items) :
          \E i \in 1..(j - 1) : DayBuckets(k)[i] = DayBuckets(k)[j]

\* C3 as stated: every day holds at most limit_per_day items.
C3_Original ==
    \A k \in 1..Len(Itinerary) : Len(Itinerary[k].items) <= args.limit_per_day

\* C3 amended: every day holds at most max(1, limit_per_day) items.
C3_DaySize ==
    \A k \in 1..Len(Itinerary) :
        Len(Itinerary[k].items) <= (IF args.limit_per_day >= 1 THEN args.limit_per_day ELSE 1)

\* C3 witness: a returned day that is full although its window held more.
C3_Witness ==
    /\ Returned
    /\ \E k \in 1..Len(plan) :
          /\ Len(plan[k].items) = (IF args.limit_per_day >= 1 THEN args.limit_per_day ELSE 1)
          /\ Len(windows[k]) > Len(plan[k].items)

\* C4 as stated: distance_km and duration_min of an item are both populated or
\* both null, the nearest-20 substitution included.
C4_Original ==
    \A a \in Slots : (ItemAt(a).distance_km = NoNum) <=> (ItemAt(a).duration_min = NoNum)

\* C4 amended: the two are both populated or both null unless the nearest-20
\* substitution was made; then every item has a distance and no duration.
C4_BothOrNeither ==
    \A a \in Slots :
        IF fallback
        THEN ItemAt(a).distance_km # NoNum /\ ItemAt(a).duration_min = NoNum
        ELSE (ItemAt(a).distance_km = NoNum) <=> (ItemAt(a).duration_min = NoNum)

\* C4 witness: a returned itinerary, routed from an origin without the
\* substitution, holding an item with neither and an item with both.
C4_Witness ==
    /\ Returned
    /\ HasOrigin
    /\ ~fallback
    /\ \E a \in Slots : ItemAt(a).distance_km = NoNum /\ ItemAt(a).duration_min = NoNum
    /\ \E a \in Slots : ItemAt(a).distance_km # NoNum /\ ItemAt(a).duration_min # NoNum

\* the radius the claim gives for a mode, in ticks
ClaimedRadius(mode) ==
    IF mode = "foot" THEN 60000 ELSE IF mode = "bike" THEN 120000 ELSE 300000

\* C5: with an origin, an item whose distance_km exceeds the mode's radius
\* (foot 6 km, bike 12 km, otherwise 30 km) is in the itinerary only when the
\* nearest-20 substitution was made, which happens only when the radius filter
\* left nothing.  (An item without a distance does not exceed the radius.)
C5_Radius ==
    HasOrigin =>
        /\ \A a \in Slots :
              ItemAt(a).distance_km > ClaimedRadius(args.mode) => fallback
        /\ fallback =>
              \A i \in 1..Len(pois) :
                  LET e == routed_entry(pois[i], args.mode)
                  IN  e.distance_km # NoNum /\ e.distance_km > ClaimedRadius(args.mode)

\* C5 witness: a returned non-empty itinerary from which the radius filter
\* removed a place.
C5_Witness ==
    /\ Returned
    /\ HasOrigin
    /\ ~fallback
    /\ Slots # {}
    /\ Len(enriched) < Len(pois)

\* C6 as stated: a failed routing call never makes plan_trip fail.
C6_RoutingAbsorbed == ~(pc = "raised" /\ error = "osrm")

\* C7: when no origin is given and the geocoder finds nothing, plan_trip
\* returns an empty itinerary with both links, both dates and a note, and has
\* sent no spatial query, text search or routing request.
C7_Shell ==
    geo = "empty" =>
        /\ pc = "done"
        /\ error = "none"
        /\ result # None
        /\ result.itinerary = <<>>
        /\ result.links.flights.base # "" /\ result.links.flights.q # <<>>
        /\ result.links.hotels.base # "" /\ result.links.hotels.ss # ""
        /\ _parse_date(result.start_date) = d0
        /\ _parse_date(result.end_date) = d1
        /\ result.notes # ""
        /\ calls.overpass = 0 /\ calls.nominatim = 0 /\ calls.osrm = 0

\* C7 witness: the call has returned after the geocoder found nothing.
C7_Witness == geo = "empty" /\ pc = "done" /\ ~HasOrigin /\ calls.geocode = 1

\* the claim's default window: today + 7 days to today + 9 days
DefaultWindow(a, b) == DaysFromTo(today, a) = 7 /\ DaysFromTo(a, b) = 2

Unusable(s) == _parse_date(s) = None

\* C8: once the dates are settled the first is not after the last, and when a
\* date argument is missing or unparsable, or the end precedes the start, they
\* are today + 7 days and two days later, three dates in all; the call returns
\* them.
C8_Dates ==
    /\ pc # "dates" =>
          /\ d0 # None /\ d1 # None
          /\ DateLe(d0, d1)
          /\ (\/ Unusable(args.start_date)
              \/ Unusable(args.end_date)
              \/ DateLt(_parse_date(args.end_date), _parse_date(args.start_date)))
                => DefaultWindow(d0, d1)
    /\ pc = "center" => Len(days) = DaysFromTo(d0, d1) + 1 /\ days[1] = d0 /\ days[Len(days)] = d1
    /\ pc # "raised"
    /\ pc = "done" =>
          /\ result.start_date = isoformat(d0)
          /\ result.end_date = isoformat(d1)
          /\ ~DateLt(_parse_date(result.end_date), _parse_date(result.start_date))

\* C8 witness: a call given an end before its start has returned the default
\* window.
C8_Witness ==
    /\ pc = "done"
    /\ ~Unusable(args.start_date) /\ ~Unusable(args.end_date)
    /\ DateLt(_parse_date(args.end_date), _parse_date(args.start_date))
    /\ result.start_date = isoformat(AddDays(today, 7))

\* C9: when the spatial query or a text search fails, plan_trip fails: it
\* returns nothing and goes no further with the candidates it had.
C9_DiscoveryFails ==
    error \in {"overpass", "nominatim"} =>
        /\ pc = "raised"
        /\ result = None
        /\ pois = <<>> /\ enriched = <<>> /\ plan = <<>>

\* C9 witness: a text search failed after candidates had been found.
C9_Witness == error = "nominatim" /\ raw # <<>> /\ qi > 1

\* the minutes the claim gives for dkm ticks
ClaimedMinutes(mode, dkm) ==
    IF mode = "foot" THEN (IF Ceil(dkm * 12, 10000) >= 3 THEN Ceil(dkm * 12, 10000) ELSE 3)
    ELSE IF mode = "bike" THEN Round(dkm * 4, 10000)
    ELSE Round(dkm * 25, 100000)

\* the minutes of the amended claim: on foot the nearest whole number, not the
\* next one
AmendedMinutes(mode, dkm) ==
    IF mode = "foot" THEN (IF Round(dkm * 12, 10000) >= 3 THEN Round(dkm * 12, 10000) ELSE 3)
    ELSE IF mode = "bike" THEN Round(dkm * 4, 10000)
    ELSE Round(dkm * 25, 100000)

\* C10 as stated: without an origin no routing request is sent and each
\* duration_min is ceil(12 d) (at least 3) on foot, round(4 d) by bike and
\* round(2.5 d) otherwise, d the distance to the anchor in km.
C10_Original ==
    ~HasOrigin =>
        /\ calls.osrm = 0
        /\ \A i \in 1..Len(enriched) :
              enriched[i].duration_min = ClaimedMinutes(args.mode, pois[i]._d_center_km)

\* C10 amended: as stated, but on foot round(12 d) (at least 3).
C10_Estimate ==
    ~HasOrigin =>
        /\ calls.osrm = 0
        /\ \A i \in 1..Len(enriched) :
              enriched[i].duration_min = AmendedMinutes(args.mode, pois[i]._d_center_km)
        /\ \A a \in Slots :
              \E i \in 1..Len(pois) :
                  /\ _key(ItemAt(a)) = _key(enriched[i])
                  /\ ItemAt(a).duration_min = AmendedMinutes(args.mode, pois[i]._d_center_km)

\* C10 witness: a returned walk without origin with an item 1.5 km off at 18
\* minutes and an item whose 12 d is not whole.
C10_Witness ==
    /\ Returned
    /\ ~HasOrigin
    /\ args.mode = "foot"
    /\ \E a \in Slots : \E i \in 1..Len(pois) :
          /\ _key(ItemAt(a)) = _key(enriched[i])
          /\ Round2(pois[i]._d_center_km) = 15000
          /\ ItemAt(a).duration_min = 18
    /\ \E a \in Slots : \E i \in 1..Len(pois) :
          /\ _key(ItemAt(a)) = _key(enriched[i])
          /\ (pois[i]._d_center_km * 12) % 10000 # 0
          /\ pois[i]._d_center_km * 12 > 30000

\* C11: every Day of the itinerary, returned or under construction, holds at
\* least one item; a date for which nothing is left gets no Day.
C11_NoEmptyDay ==
    /\ \A k \in 1..Len(Itinerary) : Itinerary[k].items # <<>>
    /\ Len(Itinerary) <= Len(pool) + Cardinality(used_keys)

\* C11 witness: a returned itinerary with a Day, and with fewer Days than the
\* range has dates because the pool ran out.
C11_Witness ==
    /\ Returned
    /\ result.itinerary # <<>>
    /\ Len(result.itinerary) < DaysFromTo(d0, d1) + 1
    /\ days # <<>>
    /\ pool = <<>>

\* C12 as stated: with an origin, a place for which the routing service
\* answered with no route has a populated distance and a populated duration
\* once its estimate is made.
C12_EmptyRouteEstimated ==
    (pc = "enrich" /\ HasOrigin) =>
        \A i \in 1..Len(enriched) :
            pois[i].osrm.routes = <<>> =>
                enriched[i].distance_km # NoNum /\ enriched[i].duration_min # NoNum

\* the speed the claim speaks of: a routed distance (ticks) and duration
\* (minutes) that imply more than 8 km/h, a duration of no minute included
ImpliesAbove8(distance_km, duration_min) ==
    distance_km > 0 /\ 60 * distance_km > 8 * 10000 * duration_min

\* C13 as stated: on foot with an origin, a routed answer implying more than
\* 8 km/h gets the duration of 12 minutes per kilometre of the routed distance,
\* at least 3; every foot duration that is not null is at least 3; by bike and
\* by car the routed duration is kept as it is.
C13_FootSanity ==
    /\ (pc = "enrich" /\ HasOrigin) =>
          \A i \in 1..Len(enriched) :
              LET trip == _osrm_time(pois[i].osrm)
                  walk == Round(trip.distance_km * 12, 10000)
              IN  /\ (/\ args.mode = "foot"
                      /\ trip.distance_km # NoNum
                      /\ ImpliesAbove8(trip.distance_km, trip.duration_min))
                        => enriched[i].duration_min = (IF walk >= 3 THEN walk ELSE 3)
                  /\ args.mode # "foot" => enriched[i].duration_min = trip.duration_min
    /\ (HasOrigin /\ args.mode = "foot") =>
          \A a \in Slots : ItemAt(a).duration_min # NoNum => ItemAt(a).duration_min >= 3

\* straight-line distance, in ticks, from the caller's origin to a candidate
StraightLine(p) == _haversine_km(args.origin_lat, args.origin_lng, p.lat, p.lng)

\* the pool as the allocator first sees it
AtPoolStart == pc = "allocate" /\ plan = <<>> /\ used_keys = {}

\* entry e was made of candidate p
MadeOf(e, p) == e.name = SplitFirst(p.name) /\ e.lat = p.lat /\ e.lng = p.lng

C15_OthersLast ==
    pc = "diversified" =>
        \A i \in 1..Len(sample.out) : \A j \in 1..Len(sample.out) :
            (i < j /\ sample.out[i]._bucket \notin OrderSet)
                => sample.out[j]._bucket \notin OrderSet

\* the per-day limit in force
EffectiveLimit == IF args.limit_per_day >= 1 THEN args.limit_per_day ELSE 1

\* the pool's entries whose key is not yet used, in pool order
UnusedOfPool == LET Free(e) == _key(e) \notin used_keys IN SelectSeq(pool, Free)

\* C16: whenever a Day is added, each of its items was made of one of the first
\* 4 x per-day-limit unused entries of the pool as it was before the step, and
\* no unused entry beyond those is on that Day.
C16_Window ==
    [][Len(plan') = Len(plan) + 1 =>
          LET n == IF Len(UnusedOfPool) <= 4 * EffectiveLimit
                   THEN Len(UnusedOfPool) ELSE 4 * EffectiveLimit
              day == plan'[Len(plan')]
          IN  /\ \A j \in 1..Len(day.items) :
                    \E i \in 1..n :
                        /\ _key(UnusedOfPool[i]) = _key(day.items[j])
                        /\ UnusedOfPool[i].distance_km = day.items[j].distance_km
                        /\ UnusedOfPool[i].duration_min = day.items[j].duration_min
              /\ \A i \in (n + 1)..Len(UnusedOfPool) :
                    \A j \in 1..Len(day.items) :
                        _key(UnusedOfPool[i]) # _key(day.items[j])]_vars

\* C16 witness: a returned itinerary whose first Day was drawn from a window
\* shorter than the pool, a place of the first bucket of the priority order
\* lying beyond the window and no such place being on that Day.
C16_Witness ==
    /\ Returned
    /\ plan # <<>>
    /\ Len(windows[1]) = 4 * EffectiveLimit
    /\ \E i \in (4 * EffectiveLimit + 1)..Len(enriched) : enriched[i]._bucket = "history"
    /\ \A j \in 1..Len(plan[1].items) : BucketOf(1, plan[1].items[j]) # "history"

\* the candidate list has just been de-duplicated; neither it nor the
\* candidates it was made of change afterwards
Deduplicated == pc = "enrich" /\ enriched = <<>>

\* distance, in ticks, of a candidate to the anchor
ToAnchor(p) == _haversine_km(center.lat, center.lng, p.lat, p.lng)

\* the candidates are one per key, each the nearest of its key to the anchor
\* and, of several nearest, the one seen first
OnePerKeyNearest ==
    /\ \A i \in 1..Len(pois) : \A j \in 1..Len(pois) :
          i # j => _norm_name(pois[i].name) # _norm_name(pois[j].name)
    /\ \A r \in 1..Len(raw) :
          _norm_name(raw[r].name) # <<>>
              => \E i \in 1..Len(pois) : _norm_name(pois[i].name) = _norm_name(raw[r].name)
    /\ \A i \in 1..Len(pois) :
          /\ _norm_name(pois[i].name) # <<>>
          /\ \E r \in 1..Len(raw) :
                /\ pois[i] = [raw[r] EXCEPT !._d_center_km = ToAnchor(raw[r])]
                /\ \A q \in 1..Len(raw) :
                      _norm_name(raw[q].name) = _norm_name(raw[r].name)
                          => \/ ToAnchor(raw[r]) < ToAnchor(raw[q])
                             \/ (ToAnchor(raw[r]) = ToAnchor(raw[q]) /\ r <= q)

\* C17 as stated: one candidate per key, the nearest and first seen, the list
\* in non-decreasing order of the distance to the anchor.
C17_Original ==
    Deduplicated =>
        /\ OnePerKeyNearest
        /\ \A i \in 1..Len(pois) : \A j \in 1..Len(pois) :
              i < j => ToAnchor(pois[i]) <= ToAnchor(pois[j])

\* C17 amended: one candidate per key, the nearest and first seen, the list
\* in non-decreasing order of the distance to the anchor rounded to 0.001 km.
C17_Dedup ==
    Deduplicated =>
        /\ OnePerKeyNearest
        /\ \A i \in 1..Len(pois) : \A j \in 1..Len(pois) :
              i < j => 10 * Round(ToAnchor(pois[i]), 10) <= 10 * Round(ToAnchor(pois[j]), 10)

\* C17 witness: the list was made of primary and backfill candidates, two of
\* one key at the same distance and two of one key at different distances, the
\* farther one seen first.
C17_Witness ==
    /\ Deduplicated
    /\ Len(pois) >= 2
    /\ qi > 1
    /\ \E r \in 1..Len(raw) : \E q \in 1..Len(raw) :
          /\ r < q
          /\ raw[r].name # raw[q].name
          /\ _norm_name(raw[r].name) = _norm_name(raw[q].name)
          /\ ToAnchor(raw[r]) = ToAnchor(raw[q])
    /\ \E r \in 1..Len(raw) : \E q \in 1..Len(raw) :
          /\ r < q
          /\ _norm_name(raw[r].name) = _norm_name(raw[q].name)
          /\ _norm_name(raw[r].name) # <<>>
          /\ ToAnchor(raw[q]) < ToAnchor(raw[r])

\* the five search buckets
SearchBuckets == {"landmarks", "museums", "cafes", "food", "parks"}

\* the interest, once stripped and lowered, is a key of OSM_TAGS or a term of
\* BUCKET_OF_TERM
MapsToBucket(t) ==
    \/ \E k \in OSM_TAGS : k.term = Lower(Strip(t))
    \/ \E e \in BUCKET_OF_TERM : e.term = Lower(Strip(t))

BucketsChosen == pc = "overpass"

\* C18 as stated: when no interest maps to a bucket, a missing or empty list
\* included, the buckets are the five search buckets; and no bucket is there
\* that a mapping interest did not add, unless none maps.
C18_Original ==
    BucketsChosen =>
        /\ (\A i \in 1..Len(args.interests) : ~MapsToBucket(args.interests[i]))
              => tag_buckets = SearchBuckets
        /\ (\E i \in 1..Len(args.interests) : MapsToBucket(args.interests[i]))
              => \A b \in tag_buckets :
                    \E i \in 1..Len(args.interests) :
                        /\ MapsToBucket(args.interests[i])
                        /\ bucket_of_interest(args.interests[i]) = b

\* C18 amended: as stated for a list that is not empty; for a missing or
\* empty list the buckets are those of the four default interests, landmarks,
\* museums, cafes and parks.
C18_Buckets ==
    BucketsChosen =>
        /\ args.interests = <<>> => tag_buckets = {"landmarks", "museums", "cafes", "parks"}
        /\ (/\ args.interests # <<>>
            /\ \A i \in 1..Len(args.interests) : ~MapsToBucket(args.interests[i]))
              => tag_buckets = SearchBuckets
        /\ (\E i \in 1..Len(args.interests) : MapsToBucket(args.interests[i]))
              => /\ \A b \in tag_buckets :
                       \E i \in 1..Len(args.interests) :
                           /\ MapsToBucket(args.interests[i])
                           /\ bucket_of_interest(args.interests[i]) = b
                 /\ \A i \in 1..Len(args.interests) :
                       MapsToBucket(args.interests[i])
                           => bucket_of_interest(args.interests[i]) \in tag_buckets

\* C18 witness: the buckets were chosen for a list of two interests of which
\* only the second maps, and only after stripping and lowering.
C18_Witness ==
    /\ BucketsChosen
    /\ Len(args.interests) = 2
    /\ ~MapsToBucket(args.interests[1])
    /\ MapsToBucket(args.interests[2])
    /\ \A k \in OSM_TAGS \cup BUCKET_OF_TERM : k.term # args.interests[2]
    /\ Cardinality(tag_buckets) = 1

\* the date a Day carries
DayDate(k) == _parse_date(Itinerary[k].date)

\* C19: the Days carry the dates of the range from its first date on, one
\* calendar day apart, none beyond the last date: the k-th Day is the k-th
\* date of the range, and the returned start date is that of the first Day.
C19_DatesPrefix ==
    /\ \A k \in 1..Len(Itinerary) :
          /\ DayDate(k) # None
          /\ toordinal(DayDate(k)) = toordinal(d0) + k - 1
          /\ toordinal(DayDate(k)) <= toordinal(d1)
    /\ (Returned /\ result.itinerary # <<>>) => result.itinerary[1].date = result.start_date

\* C19 witness: a returned itinerary of two Days, the second in another month
\* than the first, for a range of three dates.
C19_Witness ==
    /\ Returned
    /\ Len(result.itinerary) = 2
    /\ DaysFromTo(d0, d1) = 2
    /\ DayDate(1).m # DayDate(2).m

\* the number of items scheduled
Scheduled == Cardinality(Slots)

\* C20: in a returned itinerary every Day but the last holds exactly
\* P = max(1, limit_per_day) items and the last at most P, and the number of
\* items scheduled is the smaller of the size of the allocator's pool and
\* P times the number of dates of the range.
C20_Exhaustive ==
    Returned =>
        LET P == IF args.limit_per_day >= 1 THEN args.limit_per_day ELSE 1
            dates == DaysFromTo(d0, d1) + 1
            n == Len(result.itinerary)
        IN  /\ \A k \in 1..(n - 1) : Len(result.itinerary[k].items) = P
            /\ n >= 1 => Len(result.itinerary[n].items) \in 1..P
            /\ Scheduled = (IF Len(enriched) <= P * dates THEN Len(enriched) ELSE P * dates)

\* C20 witness: a returned itinerary of a full Day and a last Day that is not
\* full, the pool being used up before the dates.
C20_Witness ==
    /\ Returned
    /\ EffectiveLimit >= 2
    /\ Len(result.itinerary) = 2
    /\ Len(result.itinerary[1].items) = EffectiveLimit
    /\ Len(result.itinerary[2].items) < EffectiveLimit
    /\ Scheduled = Len(enriched)
    /\ days # <<>>

\* the positions, in the pool the allocator started from, of the entries an
\* item of the itinerary was made of
PoolIndex(item) == {i \in 1..Len(enriched) : _key(enriched[i]) = _key(item)}

\* the pool positions that were scheduled
ScheduledIndexes == UNION {PoolIndex(ItemAt(a)) : a \in Slots}

\* slot a comes before slot b in the itinerary
SlotBefore(a, b) == a[1] < b[1] \/ (a[1] = b[1] /\ a[2] < b[2])

\* C21: in a returned itinerary, of two scheduled places of one bucket the one
\* earlier in the pool is on an earlier Day or earlier on the same Day, and no
\* place left out precedes in the pool a scheduled place of its bucket.
C21_BucketOrder ==
    Returned =>
        /\ \A a \in Slots : \A b \in Slots :
              \A i \in PoolIndex(ItemAt(a)) : \A j \in PoolIndex(ItemAt(b)) :
                  (i < j /\ enriched[i]._bucket = enriched[j]._bucket) => SlotBefore(a, b)
        /\ \A a \in Slots : PoolIndex(ItemAt(a)) # {}
        /\ \A i \in (1..Len(enriched)) \ ScheduledIndexes : \A j \in ScheduledIndexes :
              enriched[i]._bucket = enriched[j]._bucket => j < i

\* C21 witness: a returned itinerary with two places of one bucket on
\* different Days, a place of that bucket left out, and a place of another
\* bucket scheduled on a later Day than a place farther down the pool.
C21_Witness ==
    /\ Returned
    /\ \E a \in Slots : \E b \in Slots :
          \E i \in PoolIndex(ItemAt(a)) : \E j \in PoolIndex(ItemAt(b)) :
              /\ a[1] < b[1]
              /\ enriched[i]._bucket = enriched[j]._bucket
              /\ \E h \in (1..Len(enriched)) \ ScheduledIndexes :
                    enriched[h]._bucket = enriched[i]._bucket
    /\ \E a \in Slots : \E b \in Slots :
          \E i \in PoolIndex(ItemAt(a)) : \E j \in PoolIndex(ItemAt(b)) :
              i < j /\ b[1] < a[1]

\* run_agent has returned
AgentReturned ==
    agent.pc \in {"network_error", "nearby_only", "trip_only", "final", "exhausted"}

\* the last model call answered with a text that is not a question
FinalAnswer ==
    /\ ~agent.assistant_msg.raised
    /\ agent.assistant_msg.tool_calls = <<>>
    /\ Strip(agent.assistant_msg.content) # <<>>
    /\ ~_looks_like_a_question(Strip(agent.assistant_msg.content))

\* the last model call answered with a single call of the nearby tool or of plan_trip
SingleCall ==
    /\ Len(agent.assistant_msg.tool_calls) = 1
    /\ agent.assistant_msg.tool_calls[1].name \in {"nearby_search_with_walk", "plan_trip"}

\* the last model call raised
ModelError == agent.assistant_msg.raised

\* the last step ends the run
Decisive == FinalAnswer \/ SingleCall \/ ModelError

\* at most 12 model calls; a return is a text; the loop goes on only after a
\* step that is not decisive, and a decisive step never ends in the apology
BoundedSteps ==
    agent.pc # "idle" =>
        /\ agent.steps <= MAX_STEPS
        /\ AgentReturned => agent.returned # <<>>
        /\ (agent.pc \in {"model", "ask"} /\ agent.steps > 0) => ~Decisive
        /\ agent.pc = "tools" => ~(FinalAnswer \/ ModelError)
        /\ agent.pc = "exhausted" =>
               agent.steps = MAX_STEPS /\ agent.returned = APOLOGY
        /\ AgentReturned => (agent.pc = "exhausted" <=> ~Decisive)

====
